---- MODULE Spec2Model ----
(***************************************************************************)
(* Real-time state synchronisation core of the SmartBin AI dashboard       *)
(* (smartbin_ai_dashboard_common.js): entity filter, state cache, digest   *)
(* table, websocket connection manager and render scheduler.               *)
(*                                                                         *)
(* JavaScript runs every event handler to completion, so each handler is   *)
(* one action.  Entity identifiers are sequences of tokens (substrings of  *)
(* the identifier), so that startsWith / endsWith are computed, not        *)
(* assumed.  JSON.stringify of an object literal is modelled by the tuple  *)
(* of its keys and values in the order of the literal.                     *)
(*                                                                         *)
(* The debug counters renderCount, wsOpenCount, wsCloseCount and           *)
(* wsMessageCount are only read by updateDebugPanel and are left out.      *)
(*                                                                         *)
(* The repository holds a second panel script with the same scheduler and  *)
(* the same websocket handlers; it differs in the allow-list and in        *)
(* starting up synchronously, which is the behaviour of this model in      *)
(* which Startup is the first step.                                        *)
(***************************************************************************)
EXTENDS Integers, Sequences, FiniteSets, TLC

VARIABLES
    authToken,        \* const authToken (line 171)
    phase,            \* position of the start-up sequence
    hassState,        \* Map entity_id -> snapshot (line 38)
    hassDigest,       \* Map entity_id -> digest (line 39)
    ws,               \* module-level socket reference (line 40); 0 = undefined
    readyState,       \* readyState of every socket ever created
    authed,           \* line 42
    renderScheduled,  \* line 41
    rafPending,       \* render callbacks queued with requestAnimationFrame
    timers,           \* pending setTimeout(connectWebsocket, 3000) timers
    status,           \* uiState.status as set by setStatus
    admitted,         \* cache writes since the last scheduling tick (saturating)
    late,             \* the cache was written after the pending render was requested
    hist,             \* what socket ws has received and sent so far
    last,             \* summary of the handler that ran last
    dom,              \* the controls under #app and document.activeElement
    pass              \* summary of the last render pass over dom

vars == <<authToken, phase, hassState, hassDigest, ws, readyState, authed,
          renderScheduled, rafPending, timers, status, admitted, late, hist, last,
          dom, pass>>

----------------------------------------------------------------------------
(* Bounds *)

MaxSessions == 2      \* sockets created in one run
AdmitCap == 2         \* the admitted counter saturates here
MaxLen == 2           \* characters in the value of a text input

Sockets == 1..MaxSessions

----------------------------------------------------------------------------
(* Values *)

Undef == "undefined"
Token == "T"
NoToken == "null"
LostMessage == "Connection lost. Reconnecting..."

Falsy(v) == v \in {Undef, "", "null"}

\* JavaScript a || b
OrElse(a, b) == IF Falsy(a) THEN b ELSE a

Min(a, b) == IF a < b THEN a ELSE b

IsPrefix(p, s) == Len(p) <= Len(s) /\ SubSeq(s, 1, Len(p)) = p
IsSuffix(p, s) == Len(p) <= Len(s) /\ SubSeq(s, Len(s) - Len(p) + 1, Len(s)) = p

\* Entity identifiers, tokenised.
DataId == <<"sensor.", "smartbin_", "001", "_data">>
TextId == <<"input_text.", "smartbin_", "001_name">>
OtherId == <<"light.", "kitchen">>
NoId == <<>>

RelevantIds == {DataId, TextId}
EntityIds == RelevantIds \cup {OtherId, NoId}

AttrsNone == [inventory |-> Undef, images |-> Undef, results |-> Undef, query |-> Undef]
AttrsFull == [inventory |-> "inv1", images |-> "img1", results |-> "res1", query |-> "q1"]

\* The JavaScript value null where a snapshot is expected.
NullState == [tag |-> "null", entity_id |-> NoId, state |-> Undef, attributes |-> AttrsNone]

Snap(id, st, at) == [tag |-> "object", entity_id |-> id, state |-> st, attributes |-> at]

\* Snapshots the peer may send.  For the sensor: one, one that differs from
\* it outside the digest (state) and one that differs inside it (inventory,
\* images).  For the text helper: one and one that differs inside the digest
\* (state).  One entity outside the allow-list, one snapshot without
\* entity_id.
D1 == Snap(DataId, "a", AttrsNone)
D2 == Snap(DataId, "b", AttrsNone)
D3 == Snap(DataId, "a", AttrsFull)
T1 == Snap(TextId, "a", AttrsNone)
T2 == Snap(TextId, "b", AttrsNone)
X1 == Snap(OtherId, "a", AttrsNone)
X2 == Snap(NoId, "a", AttrsNone)

Snapshots == {D1, D2, D3, T1, T2, X1, X2}

\* What a change event may carry as new_state.
Items == Snapshots \cup {NullState}

\* The result arrays of the bulk frames the peer may send.
BulkResults ==
    {<<>>, <<D1>>, <<D3>>, <<T1>>, <<X1>>,
     <<D1, D2>>, <<D1, D3>>, <<X2, T2>>,
     <<D1, NullState, T1>>,
     <<X1, D1, D2, T2, X2, D3>>}

EmptyMap == [x \in {} |-> NullState]

Put(m, k, v) == [x \in (DOMAIN m) \cup {k} |-> IF x = k THEN v ELSE m[x]]

----------------------------------------------------------------------------
(* Entity Filter *)

SearchResultsId == <<"sensor.", "smartbin_", "ai_", "search_results">>
SensorSmartbin == <<"sensor.", "smartbin_">>
SensorSmartBin == <<"sensor.", "smart_bin_">>
InputTextSmartbin == <<"input_text.", "smartbin_">>
InputTextSmartbinAi == <<"input_text.", "smartbin_", "ai_">>

\* function isRelevantEntity(entityId)
isRelevantEntity(entityId) ==
    /\ entityId # NoId
    /\ \/ entityId = SearchResultsId
       \/ IsPrefix(SensorSmartbin, entityId)
       \/ IsPrefix(SensorSmartBin, entityId)
       \/ IsPrefix(InputTextSmartbin, entityId)
       \/ IsPrefix(InputTextSmartbinAi, entityId)

NullDigest == <<"null">>

\* function extractRelevantData(entityId, state): the JSON string, or null
extractRelevantData(entityId, state) ==
    IF entityId = NoId \/ state.tag = "null" THEN NullDigest
    ELSE IF entityId = SearchResultsId
    THEN <<"results", OrElse(state.attributes.results, "[]"),
           "query", OrElse(state.attributes.query, "")>>
    ELSE IF /\ IsPrefix(SensorSmartbin, entityId) \/ IsPrefix(SensorSmartBin, entityId)
            /\ IsSuffix(<<"_data">>, entityId)
    THEN <<"inventory", OrElse(state.attributes.inventory, "{}"),
           "images", OrElse(state.attributes.images, "[]")>>
    ELSE IF /\ IsPrefix(SensorSmartbin, entityId) \/ IsPrefix(SensorSmartBin, entityId)
            /\ IsSuffix(<<"_item_count">>, entityId) \/ IsSuffix(<<"_image_count">>, entityId)
    THEN <<"value", state.state>>
    ELSE IF IsPrefix(InputTextSmartbin, entityId) \/ IsPrefix(InputTextSmartbinAi, entityId)
    THEN <<"value", state.state>>
    ELSE <<"state", state.state, "attributes", state.attributes>>

\* shouldUpdateEntity without the comparison against the previous digest
shouldUpdateEntityAlways(entityId, state, digests) ==
    LET digest == extractRelevantData(entityId, state) IN
    IF digest = NullDigest THEN [ok |-> FALSE, digests |-> digests]
    ELSE [ok |-> TRUE, digests |-> Put(digests, entityId, digest)]

\* function shouldUpdateEntity(entityId, state): the returned boolean and the
\* Digest Table it leaves behind
shouldUpdateEntity(entityId, state, digests) ==
    LET digest == extractRelevantData(entityId, state) IN
    IF digest = NullDigest THEN [ok |-> FALSE, digests |-> digests]
    ELSE IF entityId \in DOMAIN digests /\ digests[entityId] = digest
    THEN [ok |-> FALSE, digests |-> digests]
    ELSE [ok |-> TRUE, digests |-> Put(digests, entityId, digest)]

----------------------------------------------------------------------------
(* Frames *)

PingIds == {7, 9}

\* Inbound frames after JSON.parse; id 0 stands for a frame without id.
InFrame(type, id, success, result, new_state) ==
    [type |-> type, id |-> id, success |-> success, result |-> result,
     new_state |-> new_state]

Malformed == InFrame("<unparseable>", 0, FALSE, <<>>, NullState)

Frames ==
    {InFrame("ping", i, FALSE, <<>>, NullState) : i \in PingIds}
    \cup {InFrame(t, 0, FALSE, <<>>, NullState) : t \in {"auth_required", "auth_ok", "auth_invalid"}}
    \cup {InFrame("result", 1, TRUE, r, NullState) : r \in BulkResults}
    \cup {InFrame("result", 1, FALSE, <<D1>>, NullState), InFrame("result", 2, TRUE, <<>>, NullState)}
    \cup {InFrame("event", 0, FALSE, <<>>, x) : x \in Items}
    \cup {Malformed}

\* Outbound frames before JSON.stringify.
OutFrame(type, id, access_token, event_type) ==
    [type |-> type, id |-> id, access_token |-> access_token, event_type |-> event_type]

Pong(i) == OutFrame("pong", i, Undef, Undef)
Auth(token) == OutFrame("auth", 0, token, Undef)
GetStates == OutFrame("get_states", 1, Undef, Undef)
SubscribeEvents == OutFrame("subscribe_events", 2, Undef, "state_changed")

----------------------------------------------------------------------------
(* Handlers.  A handler is a function of the module-level state m it runs  *)
(* on; m also collects what the handler did: the frames it sent (sent),    *)
(* its hassState.set calls (writes), its scheduleRender calls (calls),     *)
(* its setStatus calls (notices), the render() calls made while it ran     *)
(* (renders), the cache the last of them read (seen) and whether it ended  *)
(* by throwing.                                                            *)

Cur ==
    [hassState |-> hassState, hassDigest |-> hassDigest, authed |-> authed,
     renderScheduled |-> renderScheduled, rafPending |-> rafPending,
     status |-> status, timers |-> timers,
     sent |-> <<>>, writes |-> 0, calls |-> 0, notices |-> 0, renders |-> 0,
     seen |-> EmptyMap, thrown |-> FALSE, renderFails |-> FALSE,
     wsReady |-> IF ws \in Sockets THEN readyState[ws] ELSE "none"]

\* scheduleRender that renders at once instead of queueing a callback
scheduleRenderNow(m) ==
    [m EXCEPT !.calls = @ + 1, !.renders = @ + 1, !.seen = m.hassState]

\* scheduleRender that takes a second request as the cancellation of the first
scheduleRenderCancels(m) ==
    IF m.renderScheduled
    THEN [m EXCEPT !.calls = @ + 1, !.renderScheduled = FALSE, !.rafPending = @ - 1]
    ELSE [m EXCEPT !.calls = @ + 1, !.renderScheduled = TRUE, !.rafPending = @ + 1]

\* scheduleRender without the renderScheduled guard
scheduleRenderUnguarded(m) ==
    [m EXCEPT !.calls = @ + 1, !.renderScheduled = TRUE, !.rafPending = @ + 1]

\* function scheduleRender()
scheduleRender(m) ==
    IF m.renderScheduled
    THEN [m EXCEPT !.calls = @ + 1]
    ELSE [m EXCEPT !.calls = @ + 1, !.renderScheduled = TRUE, !.rafPending = @ + 1]

\* function render(): reads the cache through getState / hassState.get;
\* renderFails: this pass raises an error before it has drawn anything
render(m) ==
    IF m.renderFails THEN [m EXCEPT !.renders = @ + 1, !.thrown = TRUE]
    ELSE [m EXCEPT !.renders = @ + 1, !.seen = m.hassState]

\* a callback that clears the flag once the renderer has returned
RenderCallbackClearsAfter(m) ==
    LET m1 == render([m EXCEPT !.rafPending = @ - 1]) IN
    IF m1.thrown THEN m1 ELSE [m1 EXCEPT !.renderScheduled = FALSE]

\* the callback scheduleRender hands to requestAnimationFrame
RenderCallback(m) == render([m EXCEPT !.renderScheduled = FALSE, !.rafPending = @ - 1])

\* one scheduling tick: every callback queued before the tick runs
RECURSIVE RunCallbacks(_, _)
RunCallbacks(m, count) ==
    IF count = 0 THEN m ELSE RunCallbacks(RenderCallback(m), count - 1)

\* function setStatus(message, level)
setStatus(m, message) == [m EXCEPT !.status = message, !.notices = @ + 1]

\* ws.send(JSON.stringify(frame)) on the socket ws refers to: it throws
\* InvalidStateError while that socket is connecting and discards the frame
\* once that socket has closed
Send(m, frame) ==
    IF m.thrown THEN m
    ELSE IF m.wsReady = "connecting" THEN [m EXCEPT !.thrown = TRUE]
    ELSE IF m.wsReady = "open" THEN [m EXCEPT !.sent = Append(@, frame)]
    ELSE m

Throw(m) == [m EXCEPT !.thrown = TRUE]

\* hassState.set that stores under a key of its own instead of superseding
CacheSetStale(m, state) ==
    IF state.entity_id \in DOMAIN m.hassState
    THEN [m EXCEPT !.writes = @ + 1]
    ELSE [m EXCEPT !.hassState = Put(@, state.entity_id, state), !.writes = @ + 1]

\* hassState.set(state.entity_id, state)
CacheSet(m, state) ==
    [m EXCEPT !.hassState = Put(@, state.entity_id, state), !.writes = @ + 1]

\* the forEach callback writing the cache without consulting the digests
BulkItemNoDigest(m, state) ==
    IF state.tag = "null" THEN Throw(m)
    ELSE IF ~isRelevantEntity(state.entity_id) THEN m
    ELSE CacheSet(m, state)

\* the forEach callback without the isRelevantEntity test
BulkItemUnfiltered(m, state) ==
    IF state.tag = "null" THEN Throw(m)
    ELSE LET r == shouldUpdateEntity(state.entity_id, state, m.hassDigest)
             m1 == [m EXCEPT !.hassDigest = r.digests]
         IN  IF r.ok THEN CacheSet(m1, state) ELSE m1

\* the callback of data.result.forEach; reading entity_id of null throws
BulkItem(m, state) ==
    IF state.tag = "null" THEN Throw(m)
    ELSE IF ~isRelevantEntity(state.entity_id) THEN m
    ELSE LET r == shouldUpdateEntity(state.entity_id, state, m.hassDigest)
             m1 == [m EXCEPT !.hassDigest = r.digests]
         IN  IF r.ok THEN CacheSet(m1, state) ELSE m1

\* forEach walking the array from its end
RECURSIVE ForEachReversed(_, _)
ForEachReversed(m, items) ==
    IF items = <<>> THEN m
    ELSE LET m1 == BulkItem(m, items[Len(items)]) IN
         IF m1.thrown THEN m1 ELSE ForEachReversed(m1, SubSeq(items, 1, Len(items) - 1))

RECURSIVE ForEach(_, _)
ForEach(m, items) ==
    IF items = <<>> THEN m
    ELSE LET m1 == BulkItem(m, Head(items)) IN
         IF m1.thrown THEN m1 ELSE ForEach(m1, Tail(items))

\* the ping branch answering with a fixed id
OnPingFixedId(m, data) == Send(m, Pong(7))

\* message handler, branch data.type === "ping"
OnPing(m, data) == Send(m, Pong(data.id))

\* the auth_required branch sending the state request ahead of the credential
OnAuthRequiredLate(m, data) == Send(Send(m, GetStates), Auth(authToken))

\* message handler, branch data.type === "auth_required"
OnAuthRequired(m, data) == Send(m, Auth(authToken))

\* the auth_ok branch subscribing before it asks for the states
OnAuthOkSwapped(m, data) == Send(Send([m EXCEPT !.authed = TRUE], SubscribeEvents), GetStates)

\* message handler, branch data.type === "auth_ok"
OnAuthOk(m, data) == Send(Send([m EXCEPT !.authed = TRUE], GetStates), SubscribeEvents)

\* message handler, branch result && id === 1 && success
OnResult(m, data) ==
    LET m1 == ForEach(m, data.result) IN
    IF m1.thrown THEN m1 ELSE scheduleRender(m1)

\* the event branch storing a snapshot it does not render
OnEventStoresRejected(m, data) ==
    LET newState == data.new_state IN
    IF ~isRelevantEntity(newState.entity_id) THEN m
    ELSE LET r == shouldUpdateEntity(newState.entity_id, newState, m.hassDigest)
             m1 == [m EXCEPT !.hassDigest = r.digests]
         IN  IF r.ok THEN scheduleRender(CacheSet(m1, newState)) ELSE CacheSet(m1, newState)

\* message handler, branch event && new_state
OnEvent(m, data) ==
    LET newState == data.new_state IN
    IF ~isRelevantEntity(newState.entity_id) THEN m
    ELSE LET r == shouldUpdateEntity(newState.entity_id, newState, m.hassDigest)
             m1 == [m EXCEPT !.hassDigest = r.digests]
         IN  IF r.ok THEN scheduleRender(CacheSet(m1, newState)) ELSE m1

\* a message handler that treats an undecodable frame as a lost connection
MessageHandlerRetriesOnGarbage(m, data) ==
    IF data = Malformed THEN Throw([m EXCEPT !.authed = FALSE, !.timers = @ + 1])
    ELSE IF data.type = "ping" THEN OnPing(m, data)
    ELSE IF data.type = "auth_required" THEN OnAuthRequired(m, data)
    ELSE IF data.type = "auth_ok" THEN OnAuthOk(m, data)
    ELSE IF data.type = "result" /\ data.id = 1 /\ data.success THEN OnResult(m, data)
    ELSE IF data.type = "event" /\ data.new_state.tag # "null" THEN OnEvent(m, data)
    ELSE m

\* ws.addEventListener("message", ...)
MessageHandler(m, data) ==
    IF data = Malformed THEN Throw(m)
    ELSE IF data.type = "ping" THEN OnPing(m, data)
    ELSE IF data.type = "auth_required" THEN OnAuthRequired(m, data)
    ELSE IF data.type = "auth_ok" THEN OnAuthOk(m, data)
    ELSE IF data.type = "result" /\ data.id = 1 /\ data.success THEN OnResult(m, data)
    ELSE IF data.type = "event" /\ data.new_state.tag # "null" THEN OnEvent(m, data)
    ELSE m

\* an open handler that sends the credential at once
OpenHandlerSendsAuth(m) == Send(m, Auth(authToken))

\* ws.addEventListener("open", ...)
OpenHandler(m) == m

\* a close handler that forgets the states of the lost session
CloseHandlerClearsCache(m) ==
    LET wasAuthed == m.authed
        m1 == [m EXCEPT !.authed = FALSE, !.hassState = EmptyMap, !.hassDigest = EmptyMap]
        m2 == IF wasAuthed THEN setStatus(m1, LostMessage) ELSE m1
    IN  [m2 EXCEPT !.timers = @ + 1]

\* a close handler that arms the reconnect timer twice
CloseHandlerArmsTwice(m) ==
    LET wasAuthed == m.authed
        m1 == [m EXCEPT !.authed = FALSE]
        m2 == IF wasAuthed THEN setStatus(m1, LostMessage) ELSE m1
    IN  [m2 EXCEPT !.timers = @ + 2]

\* a close handler that leaves authed set
CloseHandlerLeaky(m) ==
    LET wasAuthed == m.authed
        m2 == IF wasAuthed THEN setStatus(m, LostMessage) ELSE m
    IN  [m2 EXCEPT !.timers = @ + 1]

\* a close handler that retries only after an authenticated session
CloseHandlerRetryIfAuthed(m) ==
    LET wasAuthed == m.authed
        m1 == [m EXCEPT !.authed = FALSE]
    IN  IF wasAuthed THEN [setStatus(m1, LostMessage) EXCEPT !.timers = @ + 1] ELSE m1

\* ws.addEventListener("close", ...)
CloseHandler(m) ==
    LET wasAuthed == m.authed
        m1 == [m EXCEPT !.authed = FALSE]
        m2 == IF wasAuthed THEN setStatus(m1, LostMessage) ELSE m1
    IN  [m2 EXCEPT !.timers = @ + 1]

----------------------------------------------------------------------------
(* What a bulk frame carries, counted as the frame is read: the items with *)
(* an identifier outside the allow-list, and the items whose digest equals *)
(* the Digest Table entry current when they are processed.                 *)

\* The message handler run on one change event per item, in the order of the
\* items.
RECURSIVE ViaEvents(_, _)
ViaEvents(m, items) ==
    IF items = <<>> THEN m
    ELSE ViaEvents(MessageHandler(m, InFrame("event", 0, FALSE, <<>>, Head(items))),
                   Tail(items))

\* The snapshots a frame offers to the cache, in the order it carries them.
FrameItems(data) ==
    IF data.type = "result" /\ data.id = 1 /\ data.success THEN data.result
    ELSE IF data.type = "event" /\ data.new_state.tag # "null" THEN <<data.new_state>>
    ELSE <<>>

\* The cache after the items are applied one after the other, each one
\* superseding the entry of its identifier when it is on the allow-list and
\* its digest differs from that of the entry; a null item ends the handler.
RECURSIVE LastAdmitted(_, _)
LastAdmitted(cache, items) ==
    IF items = <<>> THEN cache
    ELSE LET x == Head(items)
             id == x.entity_id
         IN  IF x.tag = "null" THEN cache
             ELSE IF /\ isRelevantEntity(id)
                     /\ \/ id \notin DOMAIN cache
                        \/ extractRelevantData(id, cache[id]) # extractRelevantData(id, x)
                  THEN LastAdmitted(Put(cache, id, x), Tail(items))
                  ELSE LastAdmitted(cache, Tail(items))

AllSnapshots(items) == \A i \in 1..Len(items) : items[i].tag = "object"

Irrelevant(items) ==
    Cardinality({i \in 1..Len(items) : ~isRelevantEntity(items[i].entity_id)})

RECURSIVE Duplicates(_, _)
Duplicates(items, digests) ==
    IF items = <<>> THEN 0
    ELSE LET x == Head(items)
             id == x.entity_id
             dg == extractRelevantData(id, x)
         IN  IF x.tag = "null" \/ ~isRelevantEntity(id) THEN Duplicates(Tail(items), digests)
             ELSE IF id \in DOMAIN digests /\ digests[id] = dg
                  THEN 1 + Duplicates(Tail(items), digests)
                  ELSE Duplicates(Tail(items), Put(digests, id, dg))

----------------------------------------------------------------------------
(* Focus preservation.  The document is the sequence of the controls under *)
(* #app in document order, the index of document.activeElement in it (0:   *)
(* the body) and the selection of the active element.  A control has its   *)
(* data-model key (Undef: none), its tagName, its input type and the       *)
(* length of its value.                                                    *)

Control(model, tagName, type, len) ==
    [model |-> model, tagName |-> tagName, type |-> type, len |-> len]

\* <input type="text" data-model="searchQuery" value=...> (line 1528)
SearchInput(n) == Control("searchQuery", "INPUT", "text", n)
\* <button class="btn" data-action="search"> (line 1531)
SearchButton == Control(Undef, "BUTTON", "", 0)
\* the controls of an editing row (lines 1289-1305)
EditRow(n) ==
    <<Control("editingItem.newName", "INPUT", "text", n),
      Control("editingItem.quantity", "INPUT", "number", 1),
      Control("editingItem.condition", "SELECT", "", 0),
      Control(Undef, "BUTTON", "", 0)>>

\* The trees render() produces: the search card, and the editing row of
\* every item uiState.editingItem names (two items of one bin may share a
\* name).
Trees ==
    LET card(n) == <<SearchInput(n), SearchButton>> IN
    {card(n) : n \in 0..MaxLen}
    \cup {card(n) \o EditRow(k) : n, k \in 0..MaxLen}
    \cup {card(n) \o EditRow(k) \o EditRow(k) : n, k \in 0..MaxLen}

\* selectionStart / selectionEnd: null, a range, or the caret a control
\* has before any selection was set on it
NoRange == [kind |-> "null", start |-> 0, end |-> 0]
Range(a, b) == [kind |-> "range", start |-> a, end |-> b]
DefaultCaret == [kind |-> "default", start |-> 0, end |-> 0]

NoSnapshot == [model |-> Undef, type |-> "", sel |-> NoRange]

NoDom == [tree |-> <<>>, focus |-> 0, sel |-> NoRange, kept |-> NoSnapshot, thrown |-> FALSE]

\* instanceof HTMLInputElement || instanceof HTMLTextAreaElement
TextLike(c) == c.tagName \in {"INPUT", "TEXTAREA"}

\* function captureFocusState()
captureFocusState(d) ==
    IF d.focus = 0 THEN NoSnapshot
    ELSE LET active == d.tree[d.focus] IN
         IF Falsy(active.model) THEN NoSnapshot
         ELSE [model |-> active.model, type |-> active.tagName,
               sel |-> IF TextLike(active) THEN d.sel ELSE NoRange]

\* app.querySelector(selector): the first match in document order, 0: null
querySelector(tree, model) ==
    IF \E i \in 1..Len(tree) : tree[i].model = model
    THEN CHOOSE i \in 1..Len(tree) :
            /\ tree[i].model = model
            /\ \A j \in 1..(i - 1) : tree[j].model # model
    ELSE 0

\* target.setSelectionRange(start, end): InvalidStateError on an input type
\* without selection, arguments beyond the value point at its end
setSelectionRange(d, start, end) ==
    LET target == d.tree[d.focus] IN
    IF target.type = "number" THEN [d EXCEPT !.thrown = TRUE]
    ELSE [d EXCEPT !.sel = Range(Min(start, target.len), Min(end, target.len))]

\* target.focus()
Focus(d, i) ==
    [d EXCEPT !.focus = i,
              !.sel = IF d.tree[i].tagName = "INPUT" /\ d.tree[i].type = "text"
                      THEN DefaultCaret ELSE NoRange]

\* restoreFocusState that focuses the control and leaves its selection alone
restoreFocusStateNoRange(d, state) ==
    IF state = NoSnapshot THEN d
    ELSE LET target == querySelector(d.tree, state.model) IN
         IF target = 0 THEN d ELSE Focus(d, target)

\* function restoreFocusState(state)
restoreFocusState(d, state) ==
    IF state = NoSnapshot THEN d
    ELSE LET target == querySelector(d.tree, state.model) IN
         IF target = 0 THEN d
         ELSE LET d1 == Focus(d, target) IN
              IF TextLike(d.tree[target]) /\ state.sel.kind = "range"
              THEN setSelectionRange(d1, state.sel.start, state.sel.end)
              ELSE d1

\* app.innerHTML = `...`: the controls are replaced, the active element
\* goes with them
ReplaceTree(d, tree) == [d EXCEPT !.tree = tree, !.focus = 0, !.sel = NoRange]

\* a render that keeps the snapshot in a module-level variable and falls
\* back on it when nothing is captured
RenderDomRetains(d, tree) ==
    LET captured == captureFocusState(d)
        focusState == IF captured = NoSnapshot THEN d.kept ELSE captured
        d1 == ReplaceTree([d EXCEPT !.thrown = FALSE], tree)
    IN  [restoreFocusState(d1, focusState) EXCEPT !.kept = focusState]

\* render(), lines 1508-1648: const focusState = captureFocusState();
\* app.innerHTML = ...; restoreFocusState(focusState)
RenderDom(d, tree) ==
    LET focusState == captureFocusState(d)
        d1 == ReplaceTree([d EXCEPT !.thrown = FALSE], tree)
    IN  [restoreFocusState(d1, focusState) EXCEPT !.kept = NoSnapshot]

----------------------------------------------------------------------------
(* State machine *)

NewHist ==
    [authRequired |-> FALSE, authSent |-> FALSE, authOk |-> FALSE, requested |-> FALSE]

\* Entries that differ between two maps.
Changed(a, b) ==
    {k \in (DOMAIN a) \cup (DOMAIN b) :
        \/ k \notin DOMAIN a
        \/ k \notin DOMAIN b
        \/ a[k] # b[k]}

NoHandler ==
    [op |-> "none", sock |-> 0, type |-> "", id |-> 0,
     bulk |-> FALSE, n |-> 0, k |-> 0, d |-> 0, snaps |-> TRUE, differs |-> FALSE,
     resent |-> FALSE, afterFailure |-> FALSE,
     writes |-> 0, calls |-> 0, notices |-> 0, renders |-> 0, pending |-> 0,
     seen |-> EmptyMap, late |-> FALSE, expect |-> EmptyMap,
     fan |-> [cache |-> EmptyMap, digests |-> EmptyMap],
     sent |-> <<>>, sentOn |-> 0, thrown |-> FALSE, reached |-> FALSE,
     cacheKeys |-> {}, digestKeys |-> {}]

\* The summary of a handler named op that ran on socket s and left m.
Ran(op, s, m) ==
    [NoHandler EXCEPT
        !.op = op, !.sock = s,
        !.afterFailure = (last.op = "tick" /\ last.thrown),
        !.writes = m.writes, !.calls = m.calls, !.notices = m.notices,
        !.renders = m.renders, !.seen = m.seen, !.pending = admitted, !.late = late, !.expect = hassState,
        !.sent = m.sent, !.sentOn = IF m.sent = <<>> THEN 0 ELSE ws,
        !.thrown = m.thrown,
        !.cacheKeys = Changed(hassState, m.hassState),
        !.digestKeys = Changed(hassDigest, m.hassDigest)]

\* The module-level variables a handler leaves.
Leaves(m) ==
    /\ hassState' = m.hassState
    /\ hassDigest' = m.hassDigest
    /\ authed' = m.authed
    /\ renderScheduled' = m.renderScheduled
    /\ rafPending' = m.rafPending
    /\ status' = m.status
    /\ timers' = m.timers
    /\ admitted' = IF m.renders > 0 THEN 0 ELSE Min(admitted + m.writes, AdmitCap)
    /\ late' = IF m.renders > 0 THEN FALSE ELSE late \/ (renderScheduled /\ m.writes > 0)
    /\ UNCHANGED <<dom, pass>>

Sends(m, type) == \E i \in 1..Len(m.sent) : m.sent[i].type = type

\* a script that goes on without a credential
StartPhaseUnguarded(token) == "loading"

\* if (!authToken) { app.innerHTML = <Authentication required>; return; }
StartPhase(token) == IF token = NoToken THEN "auth_error" ELSE "loading"

\* No render pass has run since the user last touched the document.
NoPass ==
    [ran |-> FALSE, key |-> Undef, textLike |-> FALSE, sel |-> NoRange,
     captured |-> NoSnapshot, present |-> FALSE]

Init ==
    /\ authToken \in {Token, NoToken}
    /\ phase = StartPhase(authToken)
    /\ hassState = EmptyMap
    /\ hassDigest = EmptyMap
    /\ ws = 0
    /\ readyState = [s \in Sockets |-> "unborn"]
    /\ authed = FALSE
    /\ renderScheduled = FALSE
    /\ rafPending = 0
    /\ timers = 0
    /\ status = ""
    /\ admitted = 0
    /\ late = FALSE
    /\ hist = NewHist
    /\ last = NoHandler
    /\ dom = NoDom
    /\ pass = NoPass

\* function connectWebsocket(): ws = new WebSocket(wsUrl)
connectWebsocket ==
    /\ ws < MaxSessions
    /\ ws' = ws + 1
    /\ readyState' = [readyState EXCEPT ![ws + 1] = "connecting"]
    /\ hist' = NewHist

\* loadConfig().finally(() => { render(); initDebugPanel(); connectWebsocket(); })
Startup ==
    /\ phase = "loading"
    /\ phase' = "running"
    /\ LET m == render(Cur) IN
       /\ Leaves(m)
       /\ last' = Ran("startup", 0, m)
    /\ connectWebsocket
    /\ UNCHANGED authToken

\* the timer armed by the close handler fires
Reconnect ==
    /\ timers > 0
    /\ connectWebsocket
    /\ timers' = timers - 1
    /\ last' = [NoHandler EXCEPT !.op = "reconnect", !.expect = hassState]
    /\ UNCHANGED <<authToken, phase, hassState, hassDigest, authed, renderScheduled,
                   rafPending, status, admitted, late, dom, pass>>

Open(s) ==
    /\ readyState[s] = "connecting"
    /\ readyState' = [readyState EXCEPT ![s] = "open"]
    /\ LET m == OpenHandler([Cur EXCEPT !.wsReady = IF s = ws THEN "open" ELSE @]) IN
       /\ Leaves(m)
       /\ hist' = [hist EXCEPT !.authSent = @ \/ Sends(m, "auth")]
       /\ last' = Ran("open", s, m)
    /\ UNCHANGED <<authToken, phase, ws>>

\* the message listener registered on socket s runs on data
Deliver(s, data) ==
    /\ LET m == MessageHandler(Cur, data)
           bulk == data.type = "result" /\ data.id = 1 /\ data.success
       IN
       /\ Leaves(m)
       /\ hist' = [authRequired |-> hist.authRequired \/ (s = ws /\ data.type = "auth_required"),
                   authSent |-> hist.authSent \/ Sends(m, "auth"),
                   authOk |-> hist.authOk \/ (s = ws /\ data.type = "auth_ok"),
                   requested |-> hist.requested
                                 \/ (Sends(m, "get_states") /\ Sends(m, "subscribe_events"))]
       /\ last' = [Ran("message", s, m) EXCEPT
                      !.type = data.type, !.id = data.id, !.bulk = bulk,
                      !.n = IF bulk THEN Len(data.result)
                            ELSE IF data.type = "event" /\ data.new_state.tag # "null" THEN 1
                            ELSE 0,
                      !.k = IF bulk THEN Irrelevant(data.result)
                            ELSE IF data.type = "event" /\ data.new_state.tag # "null"
                            THEN Irrelevant(<<data.new_state>>)
                            ELSE 0,
                      !.d = IF bulk THEN Duplicates(data.result, hassDigest)
                            ELSE IF data.type = "event" /\ data.new_state.tag # "null"
                            THEN Duplicates(<<data.new_state>>, hassDigest)
                            ELSE 0,
                      !.snaps = AllSnapshots(data.result),
                      !.resent = \/ hist.authSent /\ Sends(m, "auth")
                                 \/ hist.requested /\ Sends(m, "get_states")
                                 \/ hist.requested /\ Sends(m, "subscribe_events"),
                      !.differs = /\ data.type = "event"
                                  /\ data.new_state.entity_id \in DOMAIN hassState
                                  /\ data.new_state # hassState[data.new_state.entity_id],
                      !.expect = LastAdmitted(hassState, FrameItems(data)),
                      !.fan = IF bulk /\ AllSnapshots(data.result)
                              THEN LET e == ViaEvents(Cur, data.result)
                                   IN  [cache |-> e.hassState, digests |-> e.hassDigest]
                              ELSE NoHandler.fan]
    /\ UNCHANGED <<authToken, phase, ws, readyState>>

\* a message event of an open socket
Message(s, data) ==
    /\ readyState[s] = "open"
    /\ Deliver(s, data)

\* The frames a replaced socket may still deliver.
LateFrames ==
    {InFrame("ping", 7, FALSE, <<>>, NullState),
     InFrame("auth_ok", 0, FALSE, <<>>, NullState),
     InFrame("result", 1, TRUE, <<D1, D3>>, NullState),
     InFrame("event", 0, FALSE, <<>>, T1)}

\* a message callback of a socket that has closed and has been replaced
LateMessage(s, data) ==
    /\ readyState[s] = "closed"
    /\ s # ws
    /\ Deliver(s, data)

Close(s) ==
    /\ readyState[s] \in {"connecting", "open"}
    /\ readyState' = [readyState EXCEPT ![s] = "closed"]
    /\ LET m == CloseHandler(Cur) IN
       /\ Leaves(m)
       /\ last' = [Ran("close", s, m) EXCEPT !.reached = (s = ws /\ hist.authOk)]
    /\ UNCHANGED <<authToken, phase, ws, hist>>

\* a scheduling tick: the queued requestAnimationFrame callbacks run,
\* each one () => { renderScheduled = false; render(); }
Tick ==
    /\ rafPending > 0
    /\ LET m == RunCallbacks(Cur, rafPending) IN
       /\ Leaves(m)
       /\ last' = Ran("tick", 0, m)
    /\ UNCHANGED <<authToken, phase, ws, readyState, hist>>

\* a user-interface handler requests a render (scheduleRender() in bindEvents)
UiEvent ==
    /\ phase \in {"loading", "running"}
    /\ LET m == scheduleRender(Cur) IN
       /\ Leaves(m)
       /\ last' = Ran("ui", 0, m)
    /\ UNCHANGED <<authToken, phase, ws, readyState, hist>>

Next ==
    \/ Startup
    \/ Reconnect
    \/ \E s \in Sockets : Open(s)
    \/ \E s \in Sockets, data \in Frames : Message(s, data)
    \/ \E s \in Sockets : Close(s)
    \/ Tick
    \/ UiEvent

Spec == Init /\ [][Next]_vars

\* The frames of the live socket in the panel with late callbacks.
SessionFrames == LateFrames \cup {InFrame("auth_required", 0, FALSE, <<>>, NullState)}

\* The panel where a replaced socket still delivers message callbacks.
LateNext ==
    \/ Startup
    \/ Reconnect
    \/ \E s \in Sockets : Open(s)
    \/ \E s \in Sockets, data \in SessionFrames : Message(s, data)
    \/ \E s \in Sockets, data \in LateFrames : LateMessage(s, data)
    \/ \E s \in Sockets : Close(s)
    \/ Tick
    \/ UiEvent

LateSpec == Init /\ [][LateNext]_vars

\* setTimeout runs its callback once the delay has passed.
LiveSpec == Spec /\ WF_vars(Reconnect)

\* the user focuses control i of the document and selects sel in it
FocusControl(i, sel) ==
    /\ i \in 1..Len(dom.tree)
    /\ IF dom.tree[i].tagName = "INPUT" /\ dom.tree[i].type = "text"
       THEN sel.kind = "range" /\ sel.start <= sel.end /\ sel.end <= dom.tree[i].len
       ELSE sel = NoRange
    /\ dom' = [dom EXCEPT !.focus = i, !.sel = sel]
    /\ pass' = NoPass
    /\ UNCHANGED <<authToken, phase, hassState, hassDigest, ws, readyState, authed,
                   renderScheduled, rafPending, timers, status, admitted, late, hist, last>>

\* one call of render() on the document, producing tree
RenderPass(tree) ==
    /\ phase # "auth_error"
    /\ dom' = RenderDom(dom, tree)
    /\ pass' = [ran |-> TRUE,
                key |-> IF dom.focus = 0 THEN Undef ELSE dom.tree[dom.focus].model,
                textLike |-> dom.focus # 0 /\ dom.sel.kind = "range",
                sel |-> dom.sel,
                captured |-> captureFocusState(dom),
                present |-> dom.focus # 0
                            /\ querySelector(tree, dom.tree[dom.focus].model) # 0]
    /\ UNCHANGED <<authToken, phase, hassState, hassDigest, ws, readyState, authed,
                   renderScheduled, rafPending, timers, status, admitted, late, hist, last>>

\* a scheduling tick whose render pass raises an error
FailingTick ==
    /\ rafPending > 0
    /\ LET m == RunCallbacks([Cur EXCEPT !.renderFails = TRUE], rafPending) IN
       /\ Leaves(m)
       /\ last' = Ran("tick", 0, m)
    /\ UNCHANGED <<authToken, phase, ws, readyState, hist>>

\* The change events of the first session.
EventFrames == {InFrame("event", 0, FALSE, <<>>, x) : x \in {D1, D3, T1}}

\* The scheduler under render passes that may raise: start-up, the first
\* session with its change events, user-interface requests and ticks.
RenderFailNext ==
    \/ Startup
    \/ \E s \in Sockets : Open(s)
    \/ \E s \in Sockets, data \in EventFrames : Message(s, data)
    \/ UiEvent
    \/ Tick
    \/ FailingTick

RenderFailSpec == Init /\ [][RenderFailNext]_vars

Selections == {NoRange} \cup {Range(a, b) : a, b \in 0..MaxLen}

\* The document under render passes and a user moving the focus; the
\* connection is left out of it.  In Spec nobody touches the document.
FocusNext ==
    \/ \E i \in 1..Len(dom.tree), sel \in Selections : FocusControl(i, sel)
    \/ \E tree \in Trees : RenderPass(tree)

FocusSpec == Init /\ [][FocusNext]_vars

----------------------------------------------------------------------------
(* Properties *)

FrameHandled == last.op = "message"

\* C1: every key of the State Cache satisfies isRelevantEntity, whatever
\* frames arrived and however many sessions there were; no handler creates
\* or changes an entry for an identifier outside the allow-list.
C1_CacheHoldsOnlyRelevant ==
    /\ \A id \in DOMAIN hassState : isRelevantEntity(id)
    /\ \A id \in last.cacheKeys : isRelevantEntity(id)

\* an update for an identifier outside the allow-list was handled in a
\* second session, next to an admitted one, and left no entry
C1_Witness ==
    /\ FrameHandled /\ ws = 2
    /\ last.k >= 1 /\ last.writes >= 1
    /\ OtherId \notin DOMAIN hassState

\* C2: the Digest Table and the State Cache have the same keys, each digest
\* is extractRelevantData of the cached snapshot, and every handler changes
\* the two for the same identifiers.
C2_DigestMatchesCache ==
    /\ DOMAIN hassDigest = DOMAIN hassState
    /\ \A id \in DOMAIN hassState : hassDigest[id] = extractRelevantData(id, hassState[id])
    /\ last.cacheKeys = last.digestKeys

\* a change event superseded a cached snapshot by one with another digest
C2_Witness ==
    /\ FrameHandled /\ last.type = "event"
    /\ last.cacheKeys = {DataId}
    /\ hassState[DataId] = D3
    /\ TextId \in DOMAIN hassState

\* C3: a frame all of whose updates repeat the digest the Digest Table holds
\* for their identifier issues no scheduleRender call, as change event and as
\* bulk result alike.
C3_NoRenderForUnchanged ==
    (FrameHandled /\ last.n >= 1 /\ last.d = last.n) => last.calls = 0

\* C4: at most one render callback is queued, and a tick that follows n >= 1
\* admitted updates with a render requested runs the renderer exactly once,
\* on the cache as it is at the tick.
C4_OneRenderPerTick ==
    /\ rafPending <= 1
    /\ renderScheduled <=> rafPending = 1
    /\ (last.op = "tick" /\ last.pending >= 1) =>
          /\ last.renders = 1
          /\ last.seen = hassState
          /\ ~renderScheduled

\* a tick came after two admitted updates and rendered once
C4_Witness ==
    /\ last.op = "tick" /\ last.pending >= 2
    /\ last.renders = 1
    /\ DOMAIN last.seen = RelevantIds

\* C5: a bulk result frame (id 1, success) of N snapshots, k of them with an
\* irrelevant identifier and d with the digest the Digest Table holds when
\* they are processed, writes the State Cache N - k - d times, renders
\* nothing itself and leaves exactly one render callback queued, which the
\* next tick runs once.
C5_BulkWritesAndOneRender ==
    /\ (FrameHandled /\ last.bulk /\ last.snaps) =>
          /\ last.writes = last.n - last.k - last.d
          /\ last.calls = 1
          /\ last.renders = 0
          /\ renderScheduled /\ rafPending = 1
    /\ last.op = "tick" => last.renders = 1

\* the bulk frame of six snapshots, two irrelevant and one a duplicate, was
\* handled
C5_Witness ==
    /\ FrameHandled /\ last.bulk
    /\ last.n = 6 /\ last.k = 2 /\ last.d = 1 /\ last.writes = 3

\* C6: the handler of an auth_required frame sends the auth frame with the
\* credential first, on the socket the frame came from.
C6_AuthAnswersAuthRequired ==
    (FrameHandled /\ last.type = "auth_required") =>
        /\ last.sent # <<>>
        /\ Head(last.sent) = Auth(Token)
        /\ last.sentOn = last.sock

\* auth_required was answered in a second session
C6_Witness ==
    /\ FrameHandled /\ last.type = "auth_required"
    /\ last.sock = 2
    /\ last.sent = <<Auth(Token)>>

\* C7: the open handler sends nothing; an auth frame is sent only by the
\* handler of an auth_required frame, so a session that has sent one has
\* received auth_required.
C7_AuthOnlyOnRequest ==
    /\ last.op = "open" => last.sent = <<>>
    /\ (\E i \in 1..Len(last.sent) : last.sent[i].type = "auth") =>
          (FrameHandled /\ last.type = "auth_required")
    /\ hist.authSent => hist.authRequired

\* a second session is open and has sent the credential after auth_required
C7_Witness ==
    /\ ws = 2 /\ readyState[2] = "open"
    /\ hist.authSent /\ hist.authRequired

\* C8: the handler of a ping frame with id i sends exactly one frame, the
\* pong with id i, on the same socket, requests and runs no render and
\* leaves the State Cache and the Digest Table alone.
C8_PongEchoesPing ==
    (FrameHandled /\ last.type = "ping") =>
        /\ last.sent = <<Pong(last.id)>>
        /\ last.sentOn = last.sock
        /\ last.calls = 0 /\ last.renders = 0
        /\ last.cacheKeys = {} /\ last.digestKeys = {}

\* a ping was answered before authentication while a render was pending
C8_Witness ==
    /\ FrameHandled /\ last.type = "ping" /\ last.id = 9
    /\ ~authed /\ renderScheduled
    /\ last.sent = <<Pong(9)>>

\* C9: the handler of auth_ok sends exactly two frames, get_states with id 1
\* and then subscribe_events with id 2.
C9_AuthOkSendsBothRequests ==
    (FrameHandled /\ last.type = "auth_ok") =>
        /\ last.sent = <<GetStates, SubscribeEvents>>
        /\ last.sent[1].id = 1 /\ last.sent[2].id = 2
        /\ last.sentOn = last.sock
        /\ authed

\* auth_ok was handled in a second session
C9_Witness ==
    /\ FrameHandled /\ last.type = "auth_ok"
    /\ last.sock = 2
    /\ Len(last.sent) = 2

\* C10: the close handler shows the connection-lost notice exactly when the
\* session being closed had received auth_ok.
C10_NoticeIffAuthenticated ==
    last.op = "close" =>
        /\ last.reached => (last.notices = 1 /\ status = LostMessage)
        /\ ~last.reached => last.notices = 0
        /\ ~authed

\* a second session closed silently after the first one had been
\* authenticated and had shown the notice
C10_Witness ==
    /\ last.op = "close" /\ last.sock = 2
    /\ ~last.reached /\ last.notices = 0
    /\ status = LostMessage

NoLiveSocket == \A s \in Sockets : readyState[s] \in {"unborn", "closed"}

\* C11: whenever the panel runs without a live socket a reconnect timer is
\* pending, and after the close of any socket but the last one the model
\* allows, the next socket is created.
C11_ReconnectAfterEveryClose ==
    /\ []((phase = "running" /\ NoLiveSocket) => timers >= 1)
    /\ \A s \in 1..(MaxSessions - 1) :
          (readyState[s] = "closed") ~> (readyState[s + 1] # "unborn")

\* the timer of a session that closed before authentication has fired
C11_Witness ==
    /\ last.op = "reconnect" /\ ws = 2
    /\ status = "" /\ timers = 0
    /\ readyState[1] = "closed" /\ readyState[2] = "connecting"

\* C12: the handler of a frame that JSON.parse rejects ends at once: it
\* leaves the socket open, sends nothing, arms no timer and changes neither
\* the State Cache, the Digest Table, authed nor the render scheduling.
C12_MalformedFrameDropped ==
    [][(last'.op = "message" /\ last'.type = Malformed.type) =>
          /\ UNCHANGED <<hassState, hassDigest, authed, renderScheduled, rafPending,
                         timers, status, ws, readyState, hist>>
          /\ readyState'[last'.sock] = "open"
          /\ last'.thrown /\ last'.sent = <<>>]_vars

\* an undecodable frame was dropped in an authenticated session with cached
\* state and a render pending
C12_Witness ==
    /\ FrameHandled /\ last.type = Malformed.type /\ last.thrown
    /\ authed /\ renderScheduled
    /\ DOMAIN hassState = RelevantIds
    /\ readyState[last.sock] = "open"

\* C13: without a credential the script stops at the error card: no socket
\* is ever created, no reconnect timer is ever armed and no handler runs.
C13_NoTokenNoConnection ==
    authToken = NoToken =>
        /\ phase = "auth_error"
        /\ ws = 0
        /\ \A s \in Sockets : readyState[s] = "unborn"
        /\ timers = 0
        /\ last.op = "none"

\* the script has started without a credential
C13_Witness ==
    /\ authToken = NoToken /\ phase = "auth_error"
    /\ ws = 0 /\ timers = 0

\* C14: once the peer has answered the auth frame with auth_invalid, the
\* session is disconnected and a reconnect is pending.
C14_RejectionDisconnects ==
    (FrameHandled /\ last.type = "auth_invalid" /\ hist.authSent /\ ~hist.authOk) =>
        /\ readyState[last.sock] = "closed"
        /\ timers >= 1

\* C15: no render() call is made while a websocket handler (message, open,
\* close) runs; render() runs in the start-up sequence and in the callbacks
\* of a scheduling tick only.
C15_NoRenderInsideHandler ==
    /\ last.op \in {"message", "open", "close"} => last.renders = 0
    /\ last.renders > 0 => last.op \in {"tick", "startup"}

\* a change event was admitted and its render was queued, not run
C15_Witness ==
    /\ FrameHandled /\ last.type = "event"
    /\ last.writes = 1 /\ last.calls = 1 /\ last.renders = 0
    /\ renderScheduled /\ rafPending = 1

\* C16: once a render is requested, every step either leaves the one queued
\* callback in place (nothing cancels or doubles it) or is the scheduling
\* tick, which runs the renderer exactly once on the cache as it is then,
\* writes made after the request included.
C16_RequestedRenderRunsOnce ==
    [][renderScheduled =>
          \/ renderScheduled' /\ rafPending' = rafPending
          \/ /\ last'.op = "tick"
             /\ last'.renders = 1
             /\ last'.seen = hassState /\ hassState' = hassState
             /\ ~renderScheduled' /\ rafPending' = 0]_vars

\* a tick rendered a cache that was written after the render was requested
C16_Witness ==
    /\ last.op = "tick" /\ last.late
    /\ last.renders = 1
    /\ last.seen = hassState /\ hassState # EmptyMap

C18_CacheIsLastAdmitted == hassState = last.expect

\* a bulk frame superseded a snapshot it had itself admitted
C18_Witness ==
    /\ FrameHandled /\ last.bulk /\ last.n = 2 /\ last.writes = 2
    /\ hassState[DataId] = D3
    /\ last.expect = hassState

\* C19: a bulk result frame of snapshots s1..sn leaves the State Cache and
\* the Digest Table exactly as n change events carrying s1..sn in the same
\* order would have left them, from the same cache and digest table.
C19_BulkIsFanOut ==
    (FrameHandled /\ last.bulk /\ last.snaps) =>
        /\ hassState = last.fan.cache
        /\ hassDigest = last.fan.digests

\* a bulk frame mixing admitted, duplicate and foreign snapshots
C19_Witness ==
    /\ FrameHandled /\ last.bulk /\ last.snaps
    /\ last.n = 6 /\ last.writes >= 2 /\ last.k = 2 /\ last.d >= 1
    /\ hassState = last.fan.cache /\ hassDigest = last.fan.digests

\* C20: a result or change-event frame handled before the session has
\* received auth_ok and sent both the get_states and the subscribe_events
\* request changes neither the State Cache nor the Digest Table.
C20_NoDataBeforeReady ==
    (/\ FrameHandled
     /\ last.type \in {"result", "event"}
     /\ ~(hist.authOk /\ hist.requested)) =>
        /\ last.cacheKeys = {}
        /\ last.digestKeys = {}

\* C21: the Notification Sink is called when a session becomes
\* authenticated: the handler of auth_ok calls setStatus, and the
\* "connection lost" status is never displayed while the session is
\* authenticated.
C21_SinkCalledOnConnect ==
    /\ (FrameHandled /\ last.type = "auth_ok") => last.notices >= 1
    /\ authed => status # LostMessage

\* C22 as stated: when the control focused before a render pass has key K
\* and selection [a,b] and the new tree has a control with key K, then
\* after the pass a control with key K is focused and, for a text input,
\* its selection is exactly [a,b].
C22_FocusRestoredExactly ==
    (pass.ran /\ ~Falsy(pass.key) /\ pass.present) =>
        /\ dom.focus # 0
        /\ dom.tree[dom.focus].model = pass.key
        /\ pass.textLike => dom.sel = pass.sel

\* C22 as amended: the selection restored is [a,b] cut to the length of the
\* value the control has in the new tree.
C22_FocusRestoredClamped ==
    (pass.ran /\ ~Falsy(pass.key) /\ pass.present) =>
        /\ dom.focus # 0
        /\ dom.tree[dom.focus].model = pass.key
        /\ ~dom.thrown
        /\ pass.textLike =>
               dom.sel = Range(Min(pass.sel.start, dom.tree[dom.focus].len),
                               Min(pass.sel.end, dom.tree[dom.focus].len))

\* a selection was restored onto a value too short for it, and another in full
C22_Witness ==
    /\ pass.ran /\ pass.key = "editingItem.newName" /\ pass.present
    /\ pass.sel = Range(1, 2)
    /\ dom.sel = Range(1, 1)
    /\ dom.tree[dom.focus].len = 1

\* C23: a render pass that finds the focused control without a key
\* captures nothing and focuses nothing; a pass whose captured key names no
\* control of the new tree focuses nothing and raises no error; no pass
\* leaves a Focus Snapshot behind.
C23_FocusDegradesSilently ==
    pass.ran =>
        /\ Falsy(pass.key) => (pass.captured = NoSnapshot /\ dom.focus = 0)
        /\ (~Falsy(pass.key) /\ ~pass.present) => (dom.focus = 0 /\ ~dom.thrown)
        /\ dom.kept = NoSnapshot

\* the focused input of an editing row was gone from the new tree
C23_Witness ==
    /\ pass.ran /\ pass.key = "editingItem.newName" /\ ~pass.present
    /\ pass.captured # NoSnapshot
    /\ dom.focus = 0 /\ dom.kept = NoSnapshot

\* C24: the session is authenticated only on an open transport on which
\* the auth frame was sent and auth_ok was received afterwards, and every
\* close leaves it disconnected; an auth_ok without the auth exchange
\* before it does not authenticate the session.
C24_SessionStateMachine ==
    /\ authed =>
           /\ ws \in Sockets /\ readyState[ws] = "open"
           /\ hist.authRequired /\ hist.authSent /\ hist.authOk
    /\ last.op = "close" => ~authed
    /\ (FrameHandled /\ last.type = "auth_ok" /\ ~hist.authSent) => ~authed

\* C25: a change event whose snapshot has the digest the Digest Table holds
\* for its identifier changes nothing: the cached snapshot stays the last
\* accepted one, also in what the digest does not cover, the Digest Table
\* stays as it was and no render is requested.
C25_RejectedChangesNothing ==
    (FrameHandled /\ last.type = "event" /\ last.n = 1 /\ last.k = 0 /\ last.d = 1) =>
        /\ last.cacheKeys = {} /\ last.digestKeys = {}
        /\ last.writes = 0
        /\ last.calls = 0 /\ last.renders = 0

\* an event differing from the cached snapshot outside the digest was rejected
C25_Witness ==
    /\ FrameHandled /\ last.type = "event" /\ last.d = 1 /\ last.differs
    /\ hassState[DataId] = D1
    /\ last.cacheKeys = {} /\ last.calls = 0

\* C26: no step removes an entry of the State Cache or of the Digest
\* Table: their key sets only grow, over frames, closes and reconnects.
C26_CacheNeverShrinks ==
    [][/\ DOMAIN hassState \subseteq DOMAIN hassState'
       /\ DOMAIN hassDigest \subseteq DOMAIN hassDigest']_vars

\* a new session was started with both entities cached
C26_Witness ==
    /\ last.op = "reconnect"
    /\ DOMAIN hassState = {DataId, TextId}
    /\ DOMAIN hassDigest = {DataId, TextId}

LiveSockets == {s \in Sockets : readyState[s] \in {"connecting", "open"}}

\* C27: once the panel has started with a credential, either one socket is
\* live and no reconnect timer is pending, or no socket is live and exactly
\* one timer is pending; every close leaves exactly one timer.
C27_OneAttemptAtATime ==
    /\ phase = "running" =>
           \/ Cardinality(LiveSockets) = 1 /\ timers = 0
           \/ Cardinality(LiveSockets) = 0 /\ timers = 1
    /\ last.op = "close" => (timers = 1 /\ LiveSockets = {})

\* the socket of a reconnect was closed in its turn
C27_Witness ==
    /\ last.op = "close" /\ last.sock = 2
    /\ timers = 1 /\ LiveSockets = {}
    /\ readyState[1] = "closed"

\* C28: a frame handler that writes a snapshot into the State Cache calls
\* scheduleRender before it exits, also when it ends abnormally on a later
\* item of a bulk response, so a render is pending after every write.
C28_WriteIsFollowedByRender ==
    (FrameHandled /\ last.writes > 0) => (last.calls >= 1 /\ renderScheduled)

\* C29: within one session the auth frame, the get_states request and the
\* subscribe_events request are each sent at most once: no handler sends
\* one of them that the session has sent before, whatever auth_required
\* and auth_ok frames arrive.
C29_HandshakeSentOnce == FrameHandled => ~last.resent

\* C30: renderScheduled is set exactly while one scheduler callback is
\* pending and never more than one is; every render pass, also one in
\* which the renderer raises, leaves the flag clear, and a scheduleRender
\* call that follows it queues a new pass.
C30_FailingRenderDoesNotWedge ==
    /\ rafPending \in {0, 1}
    /\ renderScheduled <=> (rafPending = 1)
    /\ last.op = "tick" => (~renderScheduled /\ rafPending = 0)
    /\ (last.calls >= 1 /\ last.renders = 0) => (renderScheduled /\ rafPending = 1)

\* a render was requested right after a pass in which the renderer raised
C30_Witness ==
    /\ last.op = "ui" /\ last.afterFailure
    /\ last.calls = 1
    /\ renderScheduled /\ rafPending = 1

====
